---- MODULE Spec2Model ----
(***************************************************************************)
(* Model of the recipe API (app/recipe/views.py): the tag, ingredient and  *)
(* recipe view sets over a database of user-owned rows.  A step is either  *)
(* one HTTP request handled by a view set or one direct ORM call of the    *)
(* kind the test suite uses to populate the database.                      *)
(***************************************************************************)
EXTENDS Integers, Sequences, FiniteSets, TLC

\* ---------------------------------------------------------------- bounds
MaxRecipes == 2
MaxTags == 2
MaxIngredients == 1
MaxOps == 3

\* ---------------------------------------------------------------- values
Users == {"user", "user2"}
Anonymous == "anonymous"
Principals == Users \cup {Anonymous}
NoUser == "none"

TagNames == {"Vegan", "Dessert"}
IngredientNames == {"Lemon"}

DefaultTitle == "sampleRecipe"
DefaultTimeMinutes == 10
DefaultPrice == 100

PayloadTitles == {"Spaghetti"}
PayloadTimes == {15}
PayloadPrices == {25}

NoImage == ""
UploadValues == {"image.jpg", "notimage"}

\* rest_framework.status
HTTP ==
    [OK |-> 200, CREATED |-> 201, NO_CONTENT |-> 204, BAD_REQUEST |-> 400,
     UNAUTHORIZED |-> 401, NOT_FOUND |-> 404, INTERNAL_SERVER_ERROR |-> 500]

VARIABLES recipes, recipe_seq, tags, ingredients, res, before, nops

vars == <<recipes, recipe_seq, tags, ingredients, res, before, nops>>

\* ---------------------------------------------------------------- helpers
Range(s) == {s[i] : i \in DOMAIN s}

\* every order in which the rows of S can come back
Orderings(S) ==
    {s \in [1..Cardinality(S) -> S] : \A i, j \in DOMAIN s : i # j => s[i] # s[j]}

TagIds == DOMAIN tags
IngredientIds == DOMAIN ingredients
RecipeIds == DOMAIN recipes

DB == [recipes |-> recipes, tags |-> tags, ingredients |-> ingredients]

NoQuery == [has_tags |-> FALSE, tags |-> {}, has_ingredients |-> FALSE, ingredients |-> {}]

NoPayload ==
    [fields |-> {}, title |-> "", time_minutes |-> 0, price |-> 0,
     tags |-> {}, ingredients |-> {}, name |-> "", user |-> NoUser]

Response(op, auth, status, data, pk, payload, query, file) ==
    [op |-> op, auth |-> auth, status |-> status, data |-> data, pk |-> pk,
     payload |-> payload, query |-> query, file |-> file]

\* one more operation: remember the database it started from and its outcome
Step(resp) ==
    /\ nops < MaxOps
    /\ nops' = nops + 1
    /\ before' = DB
    /\ res' = resp

Init ==
    /\ recipes = <<>>
    /\ recipe_seq = 0
    /\ tags = <<>>
    /\ ingredients = <<>>
    /\ before = [recipes |-> <<>>, tags |-> <<>>, ingredients |-> <<>>]
    /\ res = Response("init", Anonymous, 0, <<>>, 0, NoPayload, NoQuery, NoImage)
    /\ nops = 0

\* ------------------------------------------------- direct ORM calls (tests)
NewRecipe(user, title, time_minutes, price) ==
    [user |-> user, title |-> title, time_minutes |-> time_minutes, price |-> price,
     image |-> NoImage, tags |-> {}, ingredients |-> {}]

InsertRecipe(row) ==
    /\ recipe_seq' = recipe_seq + 1
    /\ recipes' = [i \in RecipeIds \cup {recipe_seq + 1} |->
                      IF i = recipe_seq + 1 THEN row ELSE recipes[i]]

sample_recipe ==
    \E user \in Users :
        /\ recipe_seq < MaxRecipes
        /\ InsertRecipe(NewRecipe(user, DefaultTitle, DefaultTimeMinutes, DefaultPrice))
        /\ UNCHANGED <<tags, ingredients>>
        /\ Step(Response("sample_recipe", user, 0, <<recipe_seq + 1>>, recipe_seq + 1,
                         NoPayload, NoQuery, NoImage))

sample_tag ==
    \E user \in Users, name \in TagNames :
        /\ Len(tags) < MaxTags
        /\ tags' = Append(tags, [user |-> user, name |-> name])
        /\ UNCHANGED <<recipes, recipe_seq, ingredients>>
        /\ Step(Response("sample_tag", user, 0, <<Len(tags) + 1>>, Len(tags) + 1,
                         NoPayload, NoQuery, NoImage))

sample_ingredients ==
    \E user \in Users, name \in IngredientNames :
        /\ Len(ingredients) < MaxIngredients
        /\ ingredients' = Append(ingredients, [user |-> user, name |-> name])
        /\ UNCHANGED <<recipes, recipe_seq, tags>>
        /\ Step(Response("sample_ingredients", user, 0, <<Len(ingredients) + 1>>,
                         Len(ingredients) + 1, NoPayload, NoQuery, NoImage))

\* recipe.tags.add(sample_tag(user=...)): a new tag, attached to the recipe
tags_add ==
    \E pk \in RecipeIds, user \in Users, name \in TagNames :
        /\ Len(tags) < MaxTags
        /\ tags' = Append(tags, [user |-> user, name |-> name])
        /\ recipes' = [recipes EXCEPT ![pk].tags = @ \cup {Len(tags) + 1}]
        /\ UNCHANGED <<recipe_seq, ingredients>>
        /\ Step(Response("tags_add", user, 0, <<pk>>, pk,
                         NoPayload, NoQuery, NoImage))

\* recipe.ingredients.add(sample_ingredients(user=...))
ingredients_add ==
    \E pk \in RecipeIds, user \in Users, name \in IngredientNames :
        /\ Len(ingredients) < MaxIngredients
        /\ ingredients' = Append(ingredients, [user |-> user, name |-> name])
        /\ recipes' = [recipes EXCEPT ![pk].ingredients = @ \cup {Len(ingredients) + 1}]
        /\ UNCHANGED <<recipe_seq, tags>>
        /\ Step(Response("ingredients_add", user, 0, <<pk>>, pk,
                         NoPayload, NoQuery, NoImage))

\* ------------------------------------------------------------ serializers
RecipeFields == {"title", "time_minutes", "price", "tags", "ingredients"}
RequiredFields == {"title", "time_minutes", "price"}

\* field validation: required fields on a full update, related ids must exist
RecipeSerializer_is_valid(payload, partial) ==
    /\ partial \/ RequiredFields \subseteq payload.fields
    /\ "tags" \in payload.fields => payload.tags \subseteq TagIds
    /\ "ingredients" \in payload.fields => payload.ingredients \subseteq IngredientIds

\* the fields a valid payload writes: on a partial update the fields sent,
\* otherwise every serializer field (an unsent related list reads as empty)
RecipeSerializer_validated_fields(payload, partial) ==
    IF partial THEN payload.fields \cap RecipeFields ELSE RecipeFields

RecipeSerializer_value(payload, field) ==
    CASE field = "title" -> payload.title
      [] field = "time_minutes" -> payload.time_minutes
      [] field = "price" -> payload.price
      [] field = "tags" -> IF "tags" \in payload.fields THEN payload.tags ELSE {}
      [] field = "ingredients" ->
            IF "ingredients" \in payload.fields THEN payload.ingredients ELSE {}

RecipeSerializer_update(row, payload, partial) ==
    LET written == RecipeSerializer_validated_fields(payload, partial)
        new(field, old) == IF field \in written
                             THEN RecipeSerializer_value(payload, field) ELSE old
    IN  [user |-> row.user,
         title |-> new("title", row.title),
         time_minutes |-> new("time_minutes", row.time_minutes),
         price |-> new("price", row.price),
         image |-> row.image,
         tags |-> new("tags", row.tags),
         ingredients |-> new("ingredients", row.ingredients)]

\* serializer.save(**kwargs): the row built from the validated payload; the
\* owner comes from the keyword arguments of save() only
RecipeSerializer_create(payload, user) ==
    RecipeSerializer_update(NewRecipe(user, "", 0, 0), payload, FALSE)

\* the owner column of every table is a required foreign key
Model_can_save(row) == row.user \in Users

\* ------------------------------------------------------------- payloads
RecipePayload(fields, title, time_minutes, price, tagset, ingredientset, user) ==
    [fields |-> fields, title |-> title, time_minutes |-> time_minutes,
     price |-> price, tags |-> tagset, ingredients |-> ingredientset,
     name |-> "", user |-> user]

\* the related-id lists a payload or a query carries: none, one id, every id
IdSets(max) == {{}} \cup {{i} : i \in 1..max} \cup {1..max}

PayloadsOver(fieldsets, users) ==
    {RecipePayload(F,
                   IF "title" \in F THEN t ELSE "",
                   IF "time_minutes" \in F THEN m ELSE 0,
                   IF "price" \in F THEN p ELSE 0,
                   IF "tags" \in F THEN T ELSE {},
                   IF "ingredients" \in F THEN I ELSE {},
                   u) :
        F \in fieldsets, t \in PayloadTitles, m \in PayloadTimes, p \in PayloadPrices,
        T \in IdSets(MaxTags), I \in IdSets(MaxIngredients), u \in users}

FullFieldSets ==
    {{"title", "time_minutes", "price"},
     {"title", "time_minutes", "price", "tags"},
     {"title"}}

PartialFieldSets ==
    {{"title"}, {"title", "tags"}, {"time_minutes", "ingredients"}}

BasicPayload == PayloadsOver({{"title", "time_minutes", "price"}}, {NoUser})

\* an unauthenticated request is tried with one payload, an authenticated
\* one with each
CreatePayloads(auth) ==
    IF auth = Anonymous THEN BasicPayload
    ELSE PayloadsOver(FullFieldSets, {NoUser})
         \cup PayloadsOver({{"title", "time_minutes", "price"}}, Users)
UpdatePayloads(auth) ==
    IF auth = Anonymous THEN BasicPayload ELSE PayloadsOver(FullFieldSets, {NoUser})
PartialUpdatePayloads(auth) ==
    IF auth = Anonymous THEN BasicPayload ELSE PayloadsOver(PartialFieldSets, {NoUser})

AttributePayload(name, user) == [NoPayload EXCEPT !.fields = {"name"}, !.name = name, !.user = user]

AttributePayloadUsers(auth) == IF auth = Anonymous THEN {NoUser} ELSE {NoUser} \cup Users

RecipeQueries ==
    {NoQuery}
    \cup {[NoQuery EXCEPT !.has_tags = TRUE, !.tags = T] : T \in IdSets(MaxTags) \ {{}}}
    \cup {[NoQuery EXCEPT !.has_ingredients = TRUE, !.ingredients = I] :
             I \in IdSets(MaxIngredients) \ {{}}}

\* a view set whose permission class lets every request through
AllowAny(auth) == TRUE

\* ---------------------------------------------------------- permissions
IsAuthenticated(auth) == auth \in Users

\* ------------------------------------- BaseRecipeAttributesViewSet (tags,
\* ingredients): list and create
AllNames == <<"Dessert", "Lemon", "Vegan">>
NameKey(name) == CHOOSE i \in DOMAIN AllNames : AllNames[i] = name

OrderByNameDesc(rows, ids) ==
    {s \in Orderings(ids) :
        \A i, j \in DOMAIN s : i < j => NameKey(rows[s[i]].name) >= NameKey(rows[s[j]].name)}

\* the attribute list without its filter on the requesting user
BaseRecipeAttributesViewSet_get_queryset_unfiltered(rows, user) ==
    OrderByNameDesc(rows, DOMAIN rows)

\* queryset.filter(user=request.user).order_by('-name'): the orders the
\* result can have (rows of equal name come in any order)
BaseRecipeAttributesViewSet_get_queryset(rows, user) ==
    OrderByNameDesc(rows, {i \in DOMAIN rows : rows[i].user = user})

\* serializer.save(user=request.user)
BaseRecipeAttributesViewSet_perform_create(payload, user) ==
    [user |-> user, name |-> payload.name]

TagViewSet_list ==
    \E auth \in Principals :
        /\ UNCHANGED <<recipes, recipe_seq, tags, ingredients>>
        /\ IF ~IsAuthenticated(auth)
             THEN Step(Response("tag_list", auth, HTTP.UNAUTHORIZED, <<>>, 0,
                                NoPayload, NoQuery, NoImage))
             ELSE \E data \in BaseRecipeAttributesViewSet_get_queryset(tags, auth) :
                    Step(Response("tag_list", auth, HTTP.OK, data, 0,
                                  NoPayload, NoQuery, NoImage))

TagViewSet_create ==
    \E auth \in Principals, name \in TagNames : \E user \in AttributePayloadUsers(auth) :
        LET payload == AttributePayload(name, user)
            row == BaseRecipeAttributesViewSet_perform_create(payload, auth)
        IN  /\ Len(tags) < MaxTags
            /\ UNCHANGED <<recipes, recipe_seq, ingredients>>
            /\ IF ~IsAuthenticated(auth)
                 THEN /\ UNCHANGED tags
                      /\ Step(Response("tag_create", auth, HTTP.UNAUTHORIZED, <<>>, 0,
                                       payload, NoQuery, NoImage))
                 ELSE IF ~Model_can_save(row)
                 THEN /\ UNCHANGED tags
                      /\ Step(Response("tag_create", auth, HTTP.INTERNAL_SERVER_ERROR,
                                       <<>>, 0, payload, NoQuery, NoImage))
                 ELSE /\ tags' = Append(tags, row)
                      /\ Step(Response("tag_create", auth, HTTP.CREATED,
                                       <<Len(tags) + 1>>, Len(tags) + 1,
                                       payload, NoQuery, NoImage))

IngredientViewSet_list ==
    \E auth \in Principals :
        /\ UNCHANGED <<recipes, recipe_seq, tags, ingredients>>
        /\ IF ~IsAuthenticated(auth)
             THEN Step(Response("ingredient_list", auth, HTTP.UNAUTHORIZED, <<>>, 0,
                                NoPayload, NoQuery, NoImage))
             ELSE \E data \in BaseRecipeAttributesViewSet_get_queryset(ingredients, auth) :
                    Step(Response("ingredient_list", auth, HTTP.OK, data, 0,
                                  NoPayload, NoQuery, NoImage))

IngredientViewSet_create ==
    \E auth \in Principals, name \in IngredientNames : \E user \in AttributePayloadUsers(auth) :
        LET payload == AttributePayload(name, user)
            row == BaseRecipeAttributesViewSet_perform_create(payload, auth)
        IN  /\ Len(ingredients) < MaxIngredients
            /\ UNCHANGED <<recipes, recipe_seq, tags>>
            /\ IF ~IsAuthenticated(auth)
                 THEN /\ UNCHANGED ingredients
                      /\ Step(Response("ingredient_create", auth, HTTP.UNAUTHORIZED,
                                       <<>>, 0, payload, NoQuery, NoImage))
                 ELSE IF ~Model_can_save(row)
                 THEN /\ UNCHANGED ingredients
                      /\ Step(Response("ingredient_create", auth,
                                       HTTP.INTERNAL_SERVER_ERROR,
                                       <<>>, 0, payload, NoQuery, NoImage))
                 ELSE /\ ingredients' = Append(ingredients, row)
                      /\ Step(Response("ingredient_create", auth, HTTP.CREATED,
                                       <<Len(ingredients) + 1>>, Len(ingredients) + 1,
                                       payload, NoQuery, NoImage))

\* the recipe queryset without its filter on the requesting user
RecipeViewSet_get_queryset_unfiltered(user, query) == RecipeIds

\* ------------------------------------------------------------ RecipeViewSet
\* queryset.filter(user=request.user): the query parameters of the request
\* are not read and no order is requested
RecipeViewSet_get_queryset(user, query) ==
    {pk \in RecipeIds : recipes[pk].user = user}

\* the view set does not override perform_create: serializer.save() is called
\* without keyword arguments, so the row gets no owner from the request
RecipeViewSet_perform_create(payload, user) ==
    RecipeSerializer_create(payload, NoUser)

\* the detail routes look the row up in get_queryset()
RecipeViewSet_get_object(user, pk) == pk \in RecipeViewSet_get_queryset(user, NoQuery)

UnchangedDB == UNCHANGED <<recipes, recipe_seq, tags, ingredients>>

\* the rows of get_queryset(), in any order: the queryset carries no order_by,
\* so the order of the rows is the database's choice
RecipeViewSet_list ==
    \E auth \in Principals, query \in RecipeQueries :
        /\ UnchangedDB
        /\ IF ~IsAuthenticated(auth)
             THEN Step(Response("recipe_list", auth, HTTP.UNAUTHORIZED, <<>>, 0,
                                NoPayload, query, NoImage))
             ELSE \E data \in Orderings(RecipeViewSet_get_queryset(auth, query)) :
                    Step(Response("recipe_list", auth, HTTP.OK, data, 0,
                                  NoPayload, query, NoImage))

\* create: validate, then perform_create; a row the database refuses (no
\* owner) ends the request with a server error and nothing stored
RecipeViewSet_create ==
    \E auth \in Principals : \E payload \in CreatePayloads(auth) :
        LET row == RecipeViewSet_perform_create(payload, auth) IN
        /\ recipe_seq < MaxRecipes
        /\ UNCHANGED <<tags, ingredients>>
        /\ IF ~IsAuthenticated(auth)
             THEN /\ UNCHANGED <<recipes, recipe_seq>>
                  /\ Step(Response("recipe_create", auth, HTTP.UNAUTHORIZED, <<>>, 0,
                                   payload, NoQuery, NoImage))
             ELSE IF ~RecipeSerializer_is_valid(payload, FALSE)
             THEN /\ UNCHANGED <<recipes, recipe_seq>>
                  /\ Step(Response("recipe_create", auth, HTTP.BAD_REQUEST, <<>>, 0,
                                   payload, NoQuery, NoImage))
             ELSE IF ~Model_can_save(row)
             THEN /\ UNCHANGED <<recipes, recipe_seq>>
                  /\ Step(Response("recipe_create", auth, HTTP.INTERNAL_SERVER_ERROR,
                                   <<>>, 0, payload, NoQuery, NoImage))
             ELSE /\ InsertRecipe(row)
                  /\ Step(Response("recipe_create", auth, HTTP.CREATED,
                                   <<recipe_seq + 1>>, recipe_seq + 1,
                                   payload, NoQuery, NoImage))

RecipeViewSet_retrieve ==
    \E auth \in Principals, pk \in 1..MaxRecipes :
        /\ UnchangedDB
        /\ IF ~IsAuthenticated(auth)
             THEN Step(Response("recipe_retrieve", auth, HTTP.UNAUTHORIZED, <<>>, pk,
                                NoPayload, NoQuery, NoImage))
             ELSE IF ~RecipeViewSet_get_object(auth, pk)
             THEN Step(Response("recipe_retrieve", auth, HTTP.NOT_FOUND, <<>>, pk,
                                NoPayload, NoQuery, NoImage))
             ELSE Step(Response("recipe_retrieve", auth, HTTP.OK, <<pk>>, pk,
                                NoPayload, NoQuery, NoImage))

\* update(partial): PUT is update(partial=False), PATCH update(partial=True)
RecipeViewSet_update_with(op, auth, pk, payload, partial) ==
    /\ UNCHANGED <<recipe_seq, tags, ingredients>>
    /\ IF ~IsAuthenticated(auth)
         THEN /\ UNCHANGED recipes
              /\ Step(Response(op, auth, HTTP.UNAUTHORIZED, <<>>, pk,
                               payload, NoQuery, NoImage))
         ELSE IF ~RecipeViewSet_get_object(auth, pk)
         THEN /\ UNCHANGED recipes
              /\ Step(Response(op, auth, HTTP.NOT_FOUND, <<>>, pk,
                               payload, NoQuery, NoImage))
         ELSE IF ~RecipeSerializer_is_valid(payload, partial)
         THEN /\ UNCHANGED recipes
              /\ Step(Response(op, auth, HTTP.BAD_REQUEST, <<>>, pk,
                               payload, NoQuery, NoImage))
         ELSE /\ recipes' = [recipes EXCEPT
                               ![pk] = RecipeSerializer_update(@, payload, partial)]
              /\ Step(Response(op, auth, HTTP.OK, <<pk>>, pk,
                               payload, NoQuery, NoImage))

\* PUT handled as a partial update: fields not sent keep their values
RecipeViewSet_update_as_partial ==
    \E auth \in Principals, pk \in 1..MaxRecipes : \E payload \in UpdatePayloads(auth) :
        RecipeViewSet_update_with("recipe_update", auth, pk, payload, TRUE)

\* PATCH handled as a full update: every serializer field is written
RecipeViewSet_partial_update_as_full ==
    \E auth \in Principals, pk \in 1..MaxRecipes : \E payload \in PartialUpdatePayloads(auth) :
        RecipeViewSet_update_with("recipe_partial_update", auth, pk, payload, FALSE)

RecipeViewSet_update ==
    \E auth \in Principals, pk \in 1..MaxRecipes : \E payload \in UpdatePayloads(auth) :
        RecipeViewSet_update_with("recipe_update", auth, pk, payload, FALSE)

RecipeViewSet_partial_update ==
    \E auth \in Principals, pk \in 1..MaxRecipes : \E payload \in PartialUpdatePayloads(auth) :
        RecipeViewSet_update_with("recipe_partial_update", auth, pk, payload, TRUE)

RecipeViewSet_destroy ==
    \E auth \in Principals, pk \in 1..MaxRecipes :
        /\ UNCHANGED <<recipe_seq, tags, ingredients>>
        /\ IF ~IsAuthenticated(auth)
             THEN /\ UNCHANGED recipes
                  /\ Step(Response("recipe_destroy", auth, HTTP.UNAUTHORIZED, <<>>, pk,
                                   NoPayload, NoQuery, NoImage))
             ELSE IF ~RecipeViewSet_get_object(auth, pk)
             THEN /\ UNCHANGED recipes
                  /\ Step(Response("recipe_destroy", auth, HTTP.NOT_FOUND, <<>>, pk,
                                   NoPayload, NoQuery, NoImage))
             ELSE /\ recipes' = [i \in RecipeIds \ {pk} |-> recipes[i]]
                  /\ Step(Response("recipe_destroy", auth, HTTP.NO_CONTENT, <<>>, pk,
                                   NoPayload, NoQuery, NoImage))

\* POST <detail url>/upload-image/: the view set declares no upload_image
\* action, so no such route is registered and no view is ever called
post_image_upload_url ==
    \E auth \in Principals, pk \in 1..MaxRecipes, file \in UploadValues :
        /\ UnchangedDB
        /\ Step(Response("recipe_upload_image", auth, HTTP.NOT_FOUND, <<>>, pk,
                         NoPayload, NoQuery, file))

Next ==
    \/ sample_recipe
    \/ sample_tag
    \/ sample_ingredients
    \/ tags_add
    \/ ingredients_add
    \/ TagViewSet_list
    \/ TagViewSet_create
    \/ IngredientViewSet_list
    \/ IngredientViewSet_create
    \/ RecipeViewSet_list
    \/ RecipeViewSet_create
    \/ RecipeViewSet_retrieve
    \/ RecipeViewSet_update
    \/ RecipeViewSet_partial_update
    \/ RecipeViewSet_destroy
    \/ post_image_upload_url

\* ------------------------------------------------------------ properties
OwnedBy(rows, user) == {i \in DOMAIN rows : rows[i].user = user}

ListedTable ==
    CASE res.op = "recipe_list" -> before.recipes
      [] res.op = "tag_list" -> before.tags
      [] res.op = "ingredient_list" -> before.ingredients

Descending(s) == \A i, j \in DOMAIN s : i < j => s[i] > s[j]

RecipeRequestOps ==
    {"recipe_list", "recipe_create", "recipe_retrieve", "recipe_update",
     "recipe_partial_update", "recipe_destroy"}

DetailOps == {"recipe_retrieve", "recipe_update", "recipe_partial_update", "recipe_destroy"}

RequestOps ==
    RecipeRequestOps
    \cup {"recipe_upload_image", "tag_list", "tag_create", "ingredient_list",
          "ingredient_create"}

\* the last request was addressed by an authenticated user to a recipe that
\* existed and was owned by that user
OwnRecipeRequest(op) ==
    /\ res.op = op
    /\ res.auth \in Users
    /\ res.pk \in DOMAIN before.recipes
    /\ before.recipes[res.pk].user = res.auth

PayloadRelationsExist ==
    /\ res.payload.tags \subseteq DOMAIN before.tags
    /\ res.payload.ingredients \subseteq DOMAIN before.ingredients

\* C1: a list request without query parameters by an authenticated user, on
\* the recipe, tag or ingredient endpoint, answers 200 with exactly the rows
\* of that table the user owns, each once.
C1_ListLimitedToUser ==
    (/\ res.op \in {"recipe_list", "tag_list", "ingredient_list"}
     /\ res.auth \in Users
     /\ res.query = NoQuery)
    => /\ res.status = HTTP.OK
       /\ Range(res.data) = OwnedBy(ListedTable, res.auth)
       /\ Len(res.data) = Cardinality(OwnedBy(ListedTable, res.auth))

\* C1 witness: a user lists the recipes, gets some, while another user's
\* recipe is in the database.
C1_Witness ==
    /\ res.op = "recipe_list"
    /\ res.auth \in Users
    /\ res.query = NoQuery
    /\ res.data # <<>>
    /\ \E pk \in DOMAIN recipes : recipes[pk].user # res.auth

\* C2: a recipe list with tags=<ids> (ingredients=<ids>) returns exactly the
\* requester's recipes having at least one of the listed tags (ingredients).
C2_FilterByRelatedIds ==
    (/\ res.op = "recipe_list"
     /\ res.auth \in Users
     /\ res.query # NoQuery)
    => Range(res.data) =
         {pk \in OwnedBy(before.recipes, res.auth) :
            /\ res.query.has_tags => before.recipes[pk].tags \cap res.query.tags # {}
            /\ res.query.has_ingredients =>
                 before.recipes[pk].ingredients \cap res.query.ingredients # {}}

\* C3: an unauthenticated request to a recipe endpoint answers 401, carries
\* no data and leaves recipes, tags and ingredients as they were.
C3_AuthRequired ==
    (res.op \in RecipeRequestOps /\ res.auth = Anonymous)
    => /\ res.status = HTTP.UNAUTHORIZED
       /\ res.data = <<>>
       /\ DB = before

\* C3 witness: an unauthenticated request addressed an existing recipe.
C3_Witness ==
    /\ res.op \in DetailOps
    /\ res.auth = Anonymous
    /\ res.pk \in DOMAIN before.recipes

\* C4: a POST by an authenticated user with title, time_minutes, price and
\* optionally existing tag ids answers 201 with the id of a recipe that then
\* exists with the payload's values and exactly the payload's tags.
C4_CreateRecipe ==
    (/\ res.op = "recipe_create"
     /\ res.auth \in Users
     /\ RequiredFields \subseteq res.payload.fields
     /\ PayloadRelationsExist)
    => /\ res.status = HTTP.CREATED
       /\ Len(res.data) = 1
       /\ res.data[1] \in DOMAIN recipes
       /\ res.data[1] \notin DOMAIN before.recipes
       /\ recipes[res.data[1]].title = res.payload.title
       /\ recipes[res.data[1]].time_minutes = res.payload.time_minutes
       /\ recipes[res.data[1]].price = res.payload.price
       /\ recipes[res.data[1]].tags = res.payload.tags

\* C5: a PUT on the requester's own recipe with title, time_minutes and price
\* and no tags field sets the three fields and leaves the tag set empty.
C5_FullUpdate ==
    (/\ OwnRecipeRequest("recipe_update")
     /\ res.payload.fields = RequiredFields)
    => /\ res.status = HTTP.OK
       /\ res.pk \in DOMAIN recipes
       /\ recipes[res.pk].title = res.payload.title
       /\ recipes[res.pk].time_minutes = res.payload.time_minutes
       /\ recipes[res.pk].price = res.payload.price
       /\ recipes[res.pk].tags = {}

\* C5 witness: such a PUT reached a recipe that had a tag.
C5_Witness ==
    /\ OwnRecipeRequest("recipe_update")
    /\ res.payload.fields = RequiredFields
    /\ before.recipes[res.pk].tags # {}

\* C6: a valid PATCH on the requester's own recipe writes exactly the fields
\* of its payload: each field sent takes the payload's value (the tag set
\* becomes the list sent), each field not sent, the owner and the image keep
\* their values, and no other recipe changes.
C6_PartialUpdate ==
    (/\ OwnRecipeRequest("recipe_partial_update")
     /\ PayloadRelationsExist)
    => LET old == before.recipes[res.pk]
           sent == res.payload.fields
       IN  /\ res.status = HTTP.OK
           /\ DOMAIN recipes = DOMAIN before.recipes
           /\ \A pk \in DOMAIN recipes \ {res.pk} : recipes[pk] = before.recipes[pk]
           /\ recipes[res.pk].user = old.user
           /\ recipes[res.pk].image = old.image
           /\ recipes[res.pk].title =
                IF "title" \in sent THEN res.payload.title ELSE old.title
           /\ recipes[res.pk].time_minutes =
                IF "time_minutes" \in sent THEN res.payload.time_minutes
                ELSE old.time_minutes
           /\ recipes[res.pk].price =
                IF "price" \in sent THEN res.payload.price ELSE old.price
           /\ recipes[res.pk].tags =
                IF "tags" \in sent THEN res.payload.tags ELSE old.tags
           /\ recipes[res.pk].ingredients =
                IF "ingredients" \in sent THEN res.payload.ingredients
                ELSE old.ingredients

\* C6 witness: a PATCH with a title and a tags list reached a recipe having
\* a tag that the list does not name.
C6_Witness ==
    /\ OwnRecipeRequest("recipe_partial_update")
    /\ PayloadRelationsExist
    /\ res.payload.fields = {"title", "tags"}
    /\ before.recipes[res.pk].tags \ res.payload.tags # {}

\* C7: an upload of a valid image to the requester's own recipe answers 200
\* with the image and stores it; a value that is no image answers 400 and
\* leaves the image as it was.
C7_UploadImage ==
    OwnRecipeRequest("recipe_upload_image")
    => IF res.file = "image.jpg"
         THEN /\ res.status = HTTP.OK
              /\ res.data # <<>>
              /\ recipes[res.pk].image # NoImage
         ELSE /\ res.status = HTTP.BAD_REQUEST
              /\ recipes[res.pk].image = before.recipes[res.pk].image

\* C8: the recipe list comes in descending order of recipe id.
C8_ListNewestFirst ==
    (res.op = "recipe_list" /\ res.auth \in Users /\ res.status = HTTP.OK)
    => Descending(res.data)

\* C9: a retrieve, PUT, PATCH or DELETE on a recipe of another user does not
\* succeed and returns no data; and no request of a user changes or removes
\* a recipe owned by somebody else.
C9_OthersRecipesUntouched ==
    /\ (/\ res.op \in DetailOps
        /\ res.auth \in Users
        /\ res.pk \in DOMAIN before.recipes
        /\ before.recipes[res.pk].user # res.auth)
       => /\ res.status \notin {HTTP.OK, HTTP.CREATED, HTTP.NO_CONTENT}
          /\ res.data = <<>>
    /\ (res.op \in RequestOps /\ res.auth \in Users)
       => \A pk \in DOMAIN before.recipes :
             before.recipes[pk].user # res.auth
             => pk \in DOMAIN recipes /\ recipes[pk] = before.recipes[pk]

\* C9 witness: a user sent a PUT, PATCH or DELETE to a tagged recipe of
\* another user.
C9_Witness ==
    /\ res.op \in DetailOps \ {"recipe_retrieve"}
    /\ res.auth \in Users
    /\ res.pk \in DOMAIN before.recipes
    /\ before.recipes[res.pk].user # res.auth
    /\ before.recipes[res.pk].tags # {}

CreatedTable ==
    CASE res.op = "recipe_create" -> recipes
      [] res.op = "tag_create" -> tags
      [] res.op = "ingredient_create" -> ingredients

\* C10: a valid create by an authenticated user, on the recipe, tag or
\* ingredient endpoint, stores a row whose owner is that user, whatever owner
\* the payload names.
C10_CreatedRowOwnedByRequester ==
    (/\ res.op \in {"recipe_create", "tag_create", "ingredient_create"}
     /\ res.auth \in Users
     /\ res.op = "recipe_create" => RequiredFields \subseteq res.payload.fields
     /\ PayloadRelationsExist)
    => /\ res.status = HTTP.CREATED
       /\ Len(res.data) = 1
       /\ res.data[1] \in DOMAIN CreatedTable
       /\ CreatedTable[res.data[1]].user = res.auth

Spec == Init /\ [][Next]_vars
====
